---- MODULE Spec2Model ----
(***************************************************************************)
(* A model of irclog2html: the build scheduler of logs2html.py (process,   *)
(* LogFile, find_log_files, write_index, move_symlink), the line           *)
(* classifier LogParser and the colour assignment NickColourizer /         *)
(* ColourChooser of irclog2html.py, the conversion loop log2html, and the  *)
(* request routing of irclogserver.py.                                     *)
(*                                                                         *)
(* Each part has its own specifications; the variables of the parts a      *)
(* specification does not run stay at their initial values.                *)
(***************************************************************************)
EXTENDS Integers, Sequences, FiniteSets, TLC

(***************************************************************************)
(* Bounds of the model.                                                    *)
(***************************************************************************)
\* transcripts 1..MaxFiles stand for the dated file names in ascending
\* file name order (2005-01-01.log, 2005-01-02.log, ...)
MaxFiles == 3
\* modification times and the clock range over 0..MaxTime
MaxTime == 2
\* lines LogParser reads from one file
MaxLines == 2
\* nicknames 1..MaxNicks
MaxNicks == 3
\* calls of NickColourizer.nickchange in one session
MaxRenames == 1
\* ColourChooser.choose is called with i and n in 0..MaxN
MaxN == 20
\* distinct nicknames of one long session
MaxSession == 60
\* lines of a transcript handed to log2html
MaxTranscript == 3
\* pieces a request path is put together from, after its leading slash
MaxSegs == 3

VARIABLES
    \* ---- the archive directory (logs2html.py works on the file system)
    logs,        \* dated sources matched by the glob pattern
    junk,        \* matched files whose name yields no date
    srcM,        \* st_mtime of each source
    html,        \* sources whose filename + ".html" exists
    htmlM,       \* st_mtime of each artifact
    latest,      \* what sits at dir/latest.log.html
    index,       \* what sits at dir/index.html
    css,         \* whether dir/irclog.css exists
    now,         \* the file system's clock
    hasSymlink,  \* hasattr(os, "symlink") on this platform
    \* ---- one call of process(dir, options)
    pc,          \* "idle", "loop", "finalize", "done", "aborted", "crashed"
    force,       \* options.force
    logfiles,    \* the local list logfiles (newest first after reverse())
    loop_n,      \* the n of the for loop, counted from 1
    newfileC,    \* the _newfile attribute of each LogFile object
    generated,   \* files generate() was called on in this run
    genPrev,     \* the --prev-url each generate() call passed on
    genNext,     \* the --next-url each generate() call passed on
    wrote,       \* which of "latest", "index", "css" this run wrote
    \* ---- what the run found when it started, and what went before
    html0, htmlM0, latest0, index0,
    clean,       \* a successful run ended and nothing was changed since
    startedClean,\* clean, as the current run found it
    edited,      \* the sources modified since all pages were up to date
    \* ---- LogParser.__iter__ over an input file
    lineno,      \* lines read so far
    line,        \* the line read last, as the file holds it
    out,         \* the events the iteration yielded for it
    perr,        \* the exception that ended the iteration, or "none"
    \* ---- one NickColourizer
    nickcount, maxnicks, nick_colour,
    cerr,        \* the exception a lookup raised, or "none"
    lastNick,    \* the nickname looked up last (0: none yet)
    lastColour,  \* what that lookup returned
    firstColour, \* what the first lookup of each nickname returned
    order,       \* the nicknames in the order of their first lookup
    renames,     \* calls of nickchange so far
    calls,       \* the <<i, n>> of every colour_chooser.choose call so far
    \* ---- one call of ColourChooser().choose(i, n)
    arg_i, arg_n,
    chooseDone,  \* the call has ended
    ret,         \* what it returned
    cherr,       \* the exception it raised, or "none"
    \* ---- one call of log2html(LogParser(infile), formatter, title)
    infile,      \* the lines of the input file
    pos,         \* how many of them the parser has taken
    rendered,    \* the calls made to the formatter, in order
    conv,        \* "start", "loop", "done", "crashed"
    converr,     \* the exception that ended the call, or "none"
    \* ---- one request to irclogserver.application
    PATH_INFO,   \* environ['PATH_INFO']
    chan_dir,    \* IRCLOG_CHAN_DIR is set (many channels)
    sep_backslash, \* os.path takes "\" for a separator on this platform
    fs_has,      \* a file is at logfile_path/path
    log_has,     \* a file is at logfile_path/path[:-5]
    served,      \* the request was answered
    status,      \* the status passed to start_response
    opened,      \* the files opened for the request, as <<channel, name>>
    rendering    \* the page built for it: "none", "dir_listing", ...

buildVars == <<logs, junk, srcM, html, htmlM, latest, index, css, now,
               hasSymlink, pc, force, logfiles, loop_n, newfileC, generated,
               genPrev, genNext, wrote, html0, htmlM0, latest0, index0, clean,
               startedClean, edited>>

parseVars == <<lineno, line, out, perr>>

colourVars == <<nickcount, maxnicks, nick_colour, cerr, lastNick, lastColour,
                firstColour, order, renames, calls>>

chooseVars == <<arg_i, arg_n, chooseDone, ret, cherr>>

convertVars == <<infile, pos, rendered, conv, converr>>

serveVars == <<PATH_INFO, chan_dir, sep_backslash, fs_has, log_has, served,
               status, opened, rendering>>

vars == <<buildVars, parseVars, colourVars, chooseVars, convertVars, serveVars>>

otherThanBuild == <<parseVars, colourVars, chooseVars, convertVars, serveVars>>
otherThanParse == <<buildVars, colourVars, chooseVars, convertVars, serveVars>>
otherThanColour == <<buildVars, parseVars, chooseVars, convertVars, serveVars>>
otherThanChoose == <<buildVars, parseVars, colourVars, convertVars, serveVars>>
otherThanConvert == <<buildVars, parseVars, chooseVars, serveVars>>
otherThanServe == <<buildVars, parseVars, colourVars, chooseVars, convertVars>>

(***************************************************************************)
(* The parts at rest.                                                      *)
(***************************************************************************)
Nicks == 1..MaxNicks

NoColour == <<>>

ParseIdle ==
    /\ lineno = 0
    /\ line = <<>>
    /\ out = <<>>
    /\ perr = "none"

ColourIdle ==
    /\ nickcount = 0
    /\ maxnicks = 0
    /\ nick_colour = [k \in Nicks |-> NoColour]
    /\ cerr = "none"
    /\ lastNick = 0
    /\ lastColour = NoColour
    /\ firstColour = [k \in Nicks |-> NoColour]
    /\ order = <<>>
    /\ renames = 0
    /\ calls = <<>>

ChooseIdle ==
    /\ arg_i = 0
    /\ arg_n = 0
    /\ chooseDone = FALSE
    /\ ret = NoColour
    /\ cherr = "none"

ConvertIdle ==
    /\ infile = <<>>
    /\ pos = 0
    /\ rendered = <<>>
    /\ conv = "start"
    /\ converr = "none"

ServeIdle ==
    /\ PATH_INFO = <<"/">>
    /\ chan_dir = FALSE
    /\ sep_backslash = FALSE
    /\ fs_has = FALSE
    /\ log_has = FALSE
    /\ served = FALSE
    /\ status = "200 Ok"
    /\ opened = <<>>
    /\ rendering = "none"

Files == 1..MaxFiles
Time == 0..MaxTime

(***************************************************************************)
(* File names.  A matched name either carries a date (a member of Files),  *)
(* or DATE_REGEXP does not match it ("nodate": LogFile raises Error), or   *)
(* it matches digits that are no calendar date ("baddate": datetime.date   *)
(* raises ValueError).                                                     *)
(***************************************************************************)
JunkNames == {"nodate", "baddate"}

NoLink == [of |-> 0, ext |-> "none"]

\* LogFile.link, the name of the rendered artifact of a transcript
pick_output_filename(f) == [of |-> f, ext |-> "html"]

\* LogFile.title
Title(f) == [date |-> f]

Max(S) == CHOOSE x \in S : \A y \in S : y <= x
Min(S) == CHOOSE x \in S : \A y \in S : x <= y

RECURSIVE Sorted(_)
\* sorted(..., key=attrgetter('filename')): oldest first
Sorted(S) == IF S = {} THEN <<>> ELSE <<Min(S)>> \o Sorted(S \ {Min(S)})

Reverse(s) == [i \in 1..Len(s) |-> s[Len(s) + 1 - i]]

\* find_log_files raises nothing: every matched name carries a date
find_log_files_lenient(matchedJunk) == TRUE

\* find_log_files returns: LogFile(filename) raised for no matched name
find_log_files_ok(matchedJunk) == matchedJunk = {}

\* find_log_files, when it returns
find_log_files(matched) == Sorted(matched)

(***************************************************************************)
(* LogFile                                                                 *)
(***************************************************************************)
\* LogFile.newfile that asks the file system on every call
newfile_uncached(cache, f, h) == f \notin h

\* LogFile.newfile: the answer of its first call is kept in _newfile
newfile(cache, f, h) ==
    IF cache[f] = "unset" THEN f \notin h ELSE cache[f] = "new"

\* the _newfile attribute after a call of newfile()
Remember(cache, f, h) ==
    [cache EXCEPT ![f] = IF newfile(cache, f, h) THEN "new" ELSE "old"]

\* LogFile.uptodate that takes an artifact of the same age for current
uptodate_nonstrict(f, sm, h, hm) == f \in h /\ hm[f] >= sm[f]

\* LogFile.uptodate: os.stat of the artifact fails, or html_mtime > log_mtime
uptodate(f, sm, h, hm) == f \in h /\ hm[f] > sm[f]

\* prev taken from the side of next
prev_of_swapped(lf, i) == IF i > 1 THEN lf[i - 1] ELSE 0

\* process: next = logfiles[n - 1] if n > 0 else None  (0 stands for None)
next_of(lf, i) == IF i > 1 THEN lf[i - 1] ELSE 0

\* process: prev = logfiles[n + 1] if n + 1 < len(logfiles) else None
prev_of(lf, i) == IF i + 1 <= Len(lf) THEN lf[i + 1] ELSE 0

LinkOf(f) == IF f = 0 THEN NoLink ELSE pick_output_filename(f)

\* write_index that lists the files oldest first
write_index_reversed(lf, latest_log_link) ==
    [exists |-> TRUE, latestEntry |-> latest_log_link,
     entries |-> [i \in 1..Len(lf) |->
                    [href |-> pick_output_filename(lf[Len(lf) + 1 - i]),
                     title |-> Title(lf[Len(lf) + 1 - i])]]]

\* write_index: one <li> per element of logfiles, in the order given
write_index(lf, latest_log_link) ==
    [exists |-> TRUE, latestEntry |-> latest_log_link,
     entries |-> [i \in 1..Len(lf) |->
                    [href |-> pick_output_filename(lf[i]),
                     title |-> Title(lf[i])]]]

NoIndex == [exists |-> FALSE, latestEntry |-> FALSE, entries |-> <<>>]
NoLatest == [kind |-> "none", target |-> NoLink]
SymlinkTo(l) == [kind |-> "link", target |-> l]

\* move_symlink that leaves an existing entry alone
move_symlink_keep(old, src) == IF old.kind = "none" THEN SymlinkTo(src) ELSE old

\* move_symlink: os.unlink(dst) with OSError ignored (a directory stays),
\* then os.symlink(src, dst)
move_symlink(old, src) == IF old.kind = "dir" THEN old ELSE SymlinkTo(src)

\* os.symlink raises OSError: dst is still there
symlink_raises(old) == old.kind = "dir"

(***************************************************************************)
(* The state before the first run.                                         *)
(***************************************************************************)
RunLocalsInit ==
    /\ pc = "idle"
    /\ force = FALSE
    /\ logfiles = <<>>
    /\ loop_n = 0
    /\ newfileC = [f \in Files |-> "unset"]
    /\ generated = {}
    /\ genPrev = [f \in Files |-> NoLink]
    /\ genNext = [f \in Files |-> NoLink]
    /\ wrote = {}
    /\ html0 = {}
    /\ htmlM0 = [f \in Files |-> 0]
    /\ latest0 = NoLatest
    /\ index0 = NoIndex
    /\ clean = FALSE
    /\ startedClean = FALSE
    /\ edited = {}

\* a directory of transcripts, some rendered, some not, some stale
InitBuild ==
    /\ now \in Time
    /\ logs \in SUBSET Files
    /\ junk = {}
    /\ srcM \in [Files -> 0..now]
    /\ \A f \in Files \ logs : srcM[f] = 0
    /\ html \in SUBSET logs
    /\ htmlM \in [Files -> 0..now]
    /\ \A f \in Files \ html : htmlM[f] = 0
    /\ latest = NoLatest
    /\ index = NoIndex
    /\ css = FALSE
    /\ hasSymlink = TRUE
    /\ RunLocalsInit
    /\ ParseIdle
    /\ ChooseIdle
    /\ ConvertIdle
    /\ ServeIdle
    /\ ColourIdle

\* a directory never rendered before, with whatever sits at latest.log.html
InitFinal ==
    /\ now = 0
    /\ logs \in SUBSET Files
    /\ junk \in SUBSET JunkNames
    /\ srcM = [f \in Files |-> 0]
    /\ html = {}
    /\ htmlM = [f \in Files |-> 0]
    /\ latest \in {NoLatest, [kind |-> "file", target |-> NoLink],
                   [kind |-> "dir", target |-> NoLink]}
                  \cup {SymlinkTo(pick_output_filename(f)) : f \in Files}
    /\ index \in {NoIndex, write_index(<<>>, FALSE)}
    /\ css = FALSE
    /\ hasSymlink \in BOOLEAN
    /\ RunLocalsInit
    /\ ParseIdle
    /\ ChooseIdle
    /\ ConvertIdle
    /\ ServeIdle
    /\ ColourIdle

(***************************************************************************)
(* process(dir, options)                                                   *)
(***************************************************************************)
\* process up to the for loop: find_log_files and reverse().  A name
\* without a date makes LogFile.__init__ raise inside the list
\* comprehension, before anything was written.
StartRun(f_force) ==
    /\ pc = "idle"
    /\ force' = f_force
    /\ html0' = html /\ htmlM0' = htmlM /\ latest0' = latest /\ index0' = index
    /\ startedClean' = clean
    /\ IF find_log_files_ok(junk)
       THEN /\ logfiles' = Reverse(find_log_files(logs))
            /\ loop_n' = 1
            /\ pc' = IF logs = {} THEN "finalize" ELSE "loop"
       ELSE /\ logfiles' = <<>>
            /\ loop_n' = 0
            /\ pc' = "aborted"
    /\ UNCHANGED <<logs, junk, srcM, html, htmlM, latest, index, css, now,
                   hasSymlink, newfileC, generated, genPrev, genNext, wrote,
                   clean, edited>>
    /\ UNCHANGED otherThanBuild

\* one pass of the for loop of process, generate() included
Step ==
    /\ pc = "loop"
    /\ LET f == logfiles[loop_n]
           next == next_of(logfiles, loop_n)
           prev == prev_of(logfiles, loop_n)
           stale == force \/ ~uptodate(f, srcM, html, htmlM)
           askPrev == ~stale /\ prev # 0
           prevNew == askPrev /\ newfile(newfileC, prev, html)
           c1 == IF askPrev THEN Remember(newfileC, prev, html) ELSE newfileC
           askNext == ~stale /\ ~prevNew /\ next # 0
           nextNew == askNext /\ newfile(c1, next, html)
           c2 == IF askNext THEN Remember(c1, next, html) ELSE c1
           regen == stale \/ prevNew \/ nextNew
       IN  IF regen
           THEN /\ newfileC' = Remember(c2, f, html)
                /\ generated' = generated \cup {f}
                /\ genPrev' = [genPrev EXCEPT ![f] = LinkOf(prev)]
                /\ genNext' = [genNext EXCEPT ![f] = LinkOf(next)]
                /\ html' = html \cup {f}
                /\ htmlM' = [htmlM EXCEPT ![f] = now]
           ELSE /\ newfileC' = c2
                /\ UNCHANGED <<generated, genPrev, genNext, html, htmlM>>
    /\ loop_n' = loop_n + 1
    /\ pc' = IF loop_n = Len(logfiles) THEN "finalize" ELSE "loop"
    /\ UNCHANGED <<logs, junk, srcM, latest, index, css, now, hasSymlink,
                   force, logfiles, wrote, html0, htmlM0, latest0, index0,
                   clean, startedClean, edited>>
    /\ UNCHANGED otherThanBuild

\* process after the loop: the latest symlink, index.html, irclog.css
Finalize ==
    /\ pc = "finalize"
    /\ LET linking == logfiles # <<>> /\ hasSymlink
       IN  IF linking /\ symlink_raises(latest)
           THEN /\ pc' = "crashed"
                /\ UNCHANGED <<latest, index, css, wrote>>
           ELSE /\ pc' = "done"
                /\ latest' = IF linking
                             THEN move_symlink(latest, LinkOf(logfiles[1]))
                             ELSE latest
                /\ index' = write_index(logfiles, linking)
                /\ css' = TRUE
                /\ wrote' = (IF linking THEN {"latest"} ELSE {})
                            \cup {"index"}
                            \cup (IF css THEN {} ELSE {"css"})
    /\ UNCHANGED <<logs, junk, srcM, html, htmlM, now, hasSymlink, force,
                   logfiles, loop_n, newfileC, generated, genPrev, genNext, html0,
                   htmlM0, latest0, index0, clean, startedClean, edited>>
    /\ UNCHANGED otherThanBuild

\* process returns or raises; its locals are gone
Exit ==
    /\ pc \in {"done", "aborted", "crashed"}
    /\ clean' = (pc = "done")
    /\ edited' = {}
    /\ pc' = "idle"
    /\ force' = FALSE
    /\ logfiles' = <<>>
    /\ loop_n' = 0
    /\ newfileC' = [f \in Files |-> "unset"]
    /\ generated' = {}
    /\ genPrev' = [f \in Files |-> NoLink]
    /\ genNext' = [f \in Files |-> NoLink]
    /\ wrote' = {}
    /\ html0' = {}
    /\ htmlM0' = [f \in Files |-> 0]
    /\ latest0' = NoLatest
    /\ index0' = NoIndex
    /\ startedClean' = FALSE
    /\ UNCHANGED <<logs, junk, srcM, html, htmlM, latest, index, css, now,
                   hasSymlink>>
    /\ UNCHANGED otherThanBuild

(***************************************************************************)
(* The world between two runs.                                             *)
(***************************************************************************)
AllUpToDate == \A f \in logs : uptodate(f, srcM, html, htmlM)

Tick ==
    /\ pc = "idle"
    /\ now < MaxTime
    /\ now' = now + 1
    /\ UNCHANGED <<logs, junk, srcM, html, htmlM, latest, index, css,
                   hasSymlink, pc, force, logfiles, loop_n, newfileC, generated,
                   genPrev, genNext, wrote, html0, htmlM0, latest0, index0,
                   clean, startedClean, edited>>
    /\ UNCHANGED otherThanBuild

\* somebody appends to a transcript
Touch(f) ==
    /\ pc = "idle"
    /\ f \in logs
    /\ srcM' = [srcM EXCEPT ![f] = now]
    /\ clean' = FALSE
    /\ edited' = IF AllUpToDate \/ edited # {} THEN edited \cup {f} ELSE {}
    /\ UNCHANGED <<logs, junk, html, htmlM, latest, index, css, now,
                   hasSymlink, pc, force, logfiles, loop_n, newfileC, generated,
                   genPrev, genNext, wrote, html0, htmlM0, latest0, index0,
                   startedClean>>
    /\ UNCHANGED otherThanBuild

\* somebody removes a rendered page
DeleteHtml(f) ==
    /\ pc = "idle"
    /\ f \in html
    /\ html' = html \ {f}
    /\ htmlM' = [htmlM EXCEPT ![f] = 0]
    /\ clean' = FALSE
    /\ edited' = {}
    /\ UNCHANGED <<logs, junk, srcM, latest, index, css, now, hasSymlink, pc,
                   force, logfiles, loop_n, newfileC, generated, genPrev, genNext,
                   wrote, html0, htmlM0, latest0, index0, startedClean>>
    /\ UNCHANGED otherThanBuild

\* somebody renames or removes a file whose name has no date
RemoveJunk(j) ==
    /\ pc = "idle"
    /\ j \in junk
    /\ junk' = junk \ {j}
    /\ clean' = FALSE
    /\ edited' = {}
    /\ UNCHANGED <<logs, srcM, html, htmlM, latest, index, css, now,
                   hasSymlink, pc, force, logfiles, loop_n, newfileC, generated,
                   genPrev, genNext, wrote, html0, htmlM0, latest0, index0,
                   startedClean>>
    /\ UNCHANGED otherThanBuild

NextBuild ==
    \/ \E b \in BOOLEAN : StartRun(b)
    \/ Step
    \/ Finalize
    \/ Exit
    \/ Tick
    \/ \E f \in Files : Touch(f)
    \/ \E f \in Files : DeleteHtml(f)

NextFinal ==
    \/ \E b \in BOOLEAN : StartRun(b)
    \/ Step
    \/ Finalize
    \/ Exit
    \/ \E j \in JunkNames : RemoveJunk(j)

SpecBuild == InitBuild /\ [][NextBuild]_vars

SpecFinal == InitFinal /\ [][NextFinal]_vars

\* the scheduler at rest, for the specifications of the other parts
BuildIdle ==
    /\ now = 0
    /\ logs = {}
    /\ junk = {}
    /\ srcM = [f \in Files |-> 0]
    /\ html = {}
    /\ htmlM = [f \in Files |-> 0]
    /\ latest = NoLatest
    /\ index = NoIndex
    /\ css = FALSE
    /\ hasSymlink = TRUE
    /\ RunLocalsInit

(***************************************************************************)
(* LogParser.  A line is a sequence of characters.                         *)
(***************************************************************************)
Digit == {"0", "1", "2", "3", "4", "5", "6", "7", "8", "9"}

\* what \s matches
Whitespace == {" ", "\t", "\n", "\r", "\f"}

\* what a line may start with: nothing, timestamps, things that look like one
TimePrefixes ==
    {<<>>,
     <<"1", "2", ":", "3", "4", " ">>,
     <<"[", "1", "2", ":", "3", "4", ":", "5", "6", "]", " ", " ">>,
     <<"2", "0", "0", "5", "-", "0", "1", "-", "0", "9", "T", "1", "2", ":", "3", "4", " ">>,
     <<"1", "2", ":", "3", "4">>,
     <<"[", "1", "2", ":", "3", "4", " ">>}

\* the marker that follows
Heads ==
    {<<>>,
     <<"<", "a", ">", " ">>,
     <<"<", "a", ">">>,
     <<"<", "a", " ", "b", ">", "\t">>,
     <<"*", " ">>,
     <<"*", "*", "*", " ">>,
     <<"*", "*", "*">>,
     <<"-", "-", ">", " ">>,
     <<"-", "-", "-", " ">>,
     <<"a", " ">>,
     <<" ">>}

\* the text after the marker
Bodies ==
    {<<>>,
     <<"h", "i">>,
     <<"a", " ", "h", "a", "s", " ", "j", "o", "i", "n", "e", "d">>,
     <<"b", " ", "h", "a", "s", " ", "q", "u", "i", "t">>,
     <<"b", " ", "h", "a", "s", " ", "l", "e", "f", "t">>,
     <<"b", " ", "l", "e", "f", "t", ",", " ", "c", " ", "j", "o", "i", "n", "e", "d">>,
     <<"a", " ", "i", "s", " ", "n", "o", "w", " ", "k", "n", "o", "w", "n", " ", "a", "s", " ", "b">>,
     <<"a", " ", " ", "a", "r", "e", " ", "n", "o", "w", " ", "k", "n", "o", "w", "n", " ", "a", "s", " ", "b", " ", "c">>,
     <<"i", "s", " ", "n", "o", "w", " ", "k", "n", "o", "w", "n", " ", "a", "s">>,
     <<"<", "b", ">", " ", "h", "i">>}

\* how the line ends in the file
Terminators ==
    {<<>>,
     <<"\n">>,
     <<"\r", "\n">>,
     <<"\r">>}

S_STAR_SP == <<"*", " ">>

S_STAR3_SP == <<"*", "*", "*", " ">>

S_ARROW_SP == <<"-", "-", ">", " ">>

S_DASH3_SP == <<"-", "-", "-", " ">>

S_JOINED == <<"j", "o", "i", "n", "e", "d">>

S_LEFT == <<"l", "e", "f", "t">>

S_QUIT == <<"q", "u", "i", "t">>

S_IS_NOW == <<" ", "i", "s", " ", "n", "o", "w", " ", "k", "n", "o", "w", "n", " ", "a", "s", " ">>

S_ARE_NOW == <<" ", "a", "r", "e", " ", "n", "o", "w", " ", "k", "n", "o", "w", "n", " ", "a", "s", " ">>

\* the lines an input file is made of (iterating a file yields no empty
\* string)
RawLines ==
    {t \o h \o b \o e : t \in TimePrefixes, h \in Heads, b \in Bodies,
                        e \in Terminators} \ {<<>>}

NoTime == <<"None">>

Drop(s, k) == SubSeq(s, k + 1, Len(s))

\* str.startswith
StartsWith(s, p) == Len(s) >= Len(p) /\ SubSeq(s, 1, Len(p)) = p

\* p occurs in s at position i
StartsAt(s, i, p) == i + Len(p) - 1 <= Len(s) /\ SubSeq(s, i, i + Len(p) - 1) = p

\* the "in" operator on strings
Contains(s, p) == \E i \in 1..(Len(s) - Len(p) + 1) : StartsAt(s, i, p)

RECURSIVE rstrip_crlf(_)
\* line.rstrip('\r\n')
rstrip_crlf(s) ==
    IF s # <<>> /\ s[Len(s)] \in {"\r", "\n"}
    THEN rstrip_crlf(SubSeq(s, 1, Len(s) - 1))
    ELSE s

DigitAt(s, i) == i <= Len(s) /\ s[i] \in Digit
CharAt(s, i, c) == i <= Len(s) /\ s[i] = c

\* \d\d\d\d-\d\d-\d\dT at position i
DateAt(s, i) ==
    /\ \A k \in {0, 1, 2, 3, 5, 6, 8, 9} : DigitAt(s, i + k)
    /\ CharAt(s, i + 4, "-") /\ CharAt(s, i + 7, "-") /\ CharAt(s, i + 10, "T")

\* \d\d:\d\d at position i
HourMinAt(s, i) ==
    /\ \A k \in {0, 1, 3, 4} : DigitAt(s, i + k)
    /\ CharAt(s, i + 2, ":")

\* :\d\d at position i
SecAt(s, i) == CharAt(s, i, ":") /\ DigitAt(s, i + 1) /\ DigitAt(s, i + 2)

RECURSIVE SpacesAt(_, _)
\* how many blanks " +" takes from position i on
SpacesAt(s, i) == IF CharAt(s, i, " ") THEN 1 + SpacesAt(s, i + 1) ELSE 0

\* TIME_REGEXP: the ways its optional parts ([, the date, the seconds, ])
\* can be present (1) or absent (0) so that the whole pattern matches
TimeShapes(s) ==
    {t \in {0, 1} \X {0, 1} \X {0, 1} \X {0, 1} :
        LET hm == 1 + t[1] + 11 * t[2]
            af == hm + 5 + 3 * t[3]
        IN  /\ t[1] = 1 => CharAt(s, 1, "[")
            /\ t[2] = 1 => DateAt(s, 1 + t[1])
            /\ HourMinAt(s, hm)
            /\ t[3] = 1 => SecAt(s, hm + 5)
            /\ t[4] = 1 => CharAt(s, af, "]")
            /\ CharAt(s, af + t[4], " ")}

\* the match the regular expression engine returns: each optional part is
\* tried present first
TimeShape(s) ==
    CHOOSE t \in TimeShapes(s) :
        \A u \in TimeShapes(s) :
            8 * t[1] + 4 * t[2] + 2 * t[3] + t[4]
               >= 8 * u[1] + 4 * u[2] + 2 * u[3] + u[4]

\* m.group(1) of TIME_REGEXP
TimeGroup(s) ==
    LET t == TimeShape(s)
    IN  SubSeq(s, 1 + t[1], t[1] + 11 * t[2] + 5 + 3 * t[3])

\* len(m.group(0)) of TIME_REGEXP
TimeLen(s) ==
    LET t == TimeShape(s)
        body == t[1] + 11 * t[2] + 5 + 3 * t[3] + t[4]
    IN  body + SpacesAt(s, body + 1)

\* NICK_REGEXP: the places of a ">" followed by white space, after "<"
NickEnds(s) ==
    IF CharAt(s, 1, "<")
    THEN {j \in 2..(Len(s) - 1) : s[j] = ">" /\ s[j + 1] \in Whitespace}
    ELSE {}

\* NICK_CHANGE_REGEXP: the places where " is now known as " or
\* " are now known as " starts, after "*** " or "--- "
NickChangeAts(s) ==
    IF StartsWith(s, S_STAR3_SP) \/ StartsWith(s, S_DASH3_SP)
    THEN {k \in 5..Len(s) : StartsAt(s, k, S_IS_NOW) \/ StartsAt(s, k, S_ARE_NOW)}
    ELSE {}

\* m.group(1) and m.group(2) of NICK_CHANGE_REGEXP; (.*?) takes the first place
NickChangeGroups(s) ==
    LET k == Min(NickChangeAts(s))
        w == IF StartsAt(s, k, S_IS_NOW) THEN Len(S_IS_NOW) ELSE Len(S_ARE_NOW)
    IN  <<SubSeq(s, 5, k - 1), Drop(s, k + w - 1)>>

Kinds == {"COMMENT", "ACTION", "JOIN", "PART", "NICKCHANGE", "SERVER", "OTHER"}

Event(t, k, i) == [time |-> t, kind |-> k, info |-> i]

\* yield time, self.NICKCHANGE, (line, oldnick, newnick): the match was
\* bound to nick_old and nick_new; oldnick and newnick are names nothing
\* defines, so building the tuple raises NameError
nickchange_tuple(time, l) ==
    [raise |-> "NameError", event |-> Event(time, "NICKCHANGE", <<l>>)]

Yield(e) == [raise |-> "none", event |-> e]

\* the JOIN test with the two markers grouped:
\* (startswith('*** ') or startswith('--> ')) and 'joined' in line
is_join_grouped(l) ==
    (StartsWith(l, S_STAR3_SP) \/ StartsWith(l, S_ARROW_SP)) /\ Contains(l, S_JOINED)

\* line.startswith('*** ') or line.startswith('--> ') and 'joined' in line
\* ("and" binds tighter than "or")
is_join(l) ==
    \/ StartsWith(l, S_STAR3_SP)
    \/ StartsWith(l, S_ARROW_SP) /\ Contains(l, S_JOINED)

\* line.startswith('*** ') or line.startswith('--> ')
\*     and ('left' in line or 'quit' in line)
is_part(l) ==
    \/ StartsWith(l, S_STAR3_SP)
    \/ StartsWith(l, S_ARROW_SP) /\ (Contains(l, S_LEFT) \/ Contains(l, S_QUIT))

\* the if/elif chain of LogParser.__iter__ on a line without its timestamp
classify(time, l) ==
    IF NickEnds(l) # {}
    THEN LET j == Min(NickEnds(l))
         IN  Yield(Event(time, "COMMENT", <<SubSeq(l, 2, j - 1), Drop(l, j + 1)>>))
    ELSE IF StartsWith(l, S_STAR_SP)
    THEN Yield(Event(time, "ACTION", l))
    ELSE IF is_join(l)
    THEN Yield(Event(time, "JOIN", l))
    ELSE IF is_part(l)
    THEN Yield(Event(time, "PART", l))
    ELSE IF NickChangeAts(l) # {}
    THEN nickchange_tuple(time, l)
    ELSE IF StartsWith(l, S_STAR3_SP) \/ StartsWith(l, S_DASH3_SP)
    THEN Yield(Event(time, "SERVER", l))
    ELSE Yield(Event(time, "OTHER", l))

\* the body of the for loop of LogParser.__iter__ on one line of the file:
\* what it yields (nothing for a blank line) or raises
iter_line(raw) ==
    LET l == rstrip_crlf(raw)
    IN  IF l = <<>>
        THEN [raise |-> "none", yielded |-> <<>>]
        ELSE LET timed == TimeShapes(l) # {}
                 time == IF timed THEN TimeGroup(l) ELSE NoTime
                 rest == IF timed THEN Drop(l, TimeLen(l)) ELSE l
                 r == classify(time, rest)
             IN  IF r.raise = "none"
                 THEN [raise |-> "none", yielded |-> <<r.event>>]
                 ELSE [raise |-> r.raise, yielded |-> <<>>]

InitParse ==
    /\ ParseIdle
    /\ ChooseIdle
    /\ ConvertIdle
    /\ ServeIdle
    /\ BuildIdle
    /\ ColourIdle

\* the for loop takes the next line of the file; what it yields goes to
\* the caller of the generator
ReadLine(raw) ==
    /\ perr = "none"
    /\ line = <<>>
    /\ lineno < MaxLines
    /\ lineno' = lineno + 1
    /\ line' = raw
    /\ out' = iter_line(raw).yielded
    /\ perr' = iter_line(raw).raise
    /\ UNCHANGED otherThanParse

\* the caller asks for the next event (after a blank line: continue)
Resume ==
    /\ perr = "none"
    /\ line # <<>>
    /\ line' = <<>>
    /\ out' = <<>>
    /\ UNCHANGED <<lineno, perr>>
    /\ UNCHANGED otherThanParse

NextParse == (\E raw \in RawLines : ReadLine(raw)) \/ Resume

SpecParse == InitParse /\ [][NextParse]_vars

(***************************************************************************)
(* ColourChooser with its default arguments.  The components a = 0.95 and  *)
(* b = 0.5 are kept as fractions.                                          *)
(***************************************************************************)
rgbmin == 240
rgbmax == 125
CompA == <<19, 20>>
CompB == <<1, 2>>

\* self.rgb
rgb == <<<<CompA, CompB, CompB>>, <<CompB, CompA, CompB>>,
         <<CompB, CompB, CompA>>, <<CompA, CompA, CompB>>,
         <<CompA, CompB, CompA>>, <<CompB, CompA, CompA>>>>

\* int() of a quotient: towards zero
Trunc(num, den) == IF num >= 0 THEN num \div den ELSE -((-num) \div den)

\* 0.95 * m is a whole number in exact arithmetic for these i / n, and the
\* double it is computed as lies just below that number
float_rounds_below(c, i, n) ==
    c = CompA /\ (19 * i = 7 * n \/ 19 * i = 11 * n \/ 19 * i = 15 * n)

\* the magnitude with the two ends of the range exchanged
m_times_n_swapped(i, n) == rgbmax * n + (rgbmin - rgbmax) * (n - i)

\* m = rgbmin + (rgbmax - rgbmin) * float(n - i) / n, as the whole number
\* m * n
m_times_n(i, n) == rgbmin * n + (rgbmax - rgbmin) * (n - i)

\* int(c * m)
channel(c, i, n) ==
    Trunc(c[1] * m_times_n(i, n), c[2] * n)
       - (IF float_rounds_below(c, i, n) THEN 1 ELSE 0)

\* the n choose computes with
choose_n(n) == IF n = 0 THEN 1 ELSE n

\* r, g, b of choose(i, n)
choose_rgb(i, n) ==
    [k \in 1..3 |-> channel(rgb[(i % Len(rgb)) + 1][k], i, choose_n(n))]

\* the three assert statements of choose pass
choose_ok(i, n) == \A k \in 1..3 : 0 <= choose_rgb(i, n)[k] /\ choose_rgb(i, n)[k] < 256

\* the digits of '%02X'
HexCharUpper == <<"0", "1", "2", "3", "4", "5", "6", "7", "8", "9",
                  "A", "B", "C", "D", "E", "F">>

\* the digits of '%02x'
HexChar == <<"0", "1", "2", "3", "4", "5", "6", "7", "8", "9",
             "a", "b", "c", "d", "e", "f">>

\* '%02x' % v for 0 <= v < 256
Hex2(v) == <<HexChar[(v \div 16) + 1], HexChar[(v % 16) + 1]>>

\* choose(i, n) when the asserts pass: '#%02x%02x%02x' % (r, g, b)
choose(i, n) ==
    <<"#">> \o Hex2(choose_rgb(i, n)[1]) \o Hex2(choose_rgb(i, n)[2])
            \o Hex2(choose_rgb(i, n)[3])

(***************************************************************************)
(* One call of choose on a default ColourChooser, for every i and n of the *)
(* bounded range (also those a NickColourizer never passes).               *)
(***************************************************************************)
InitChoose ==
    /\ arg_i \in 0..MaxN
    /\ arg_n \in 0..MaxN
    /\ chooseDone = FALSE
    /\ ret = NoColour
    /\ cherr = "none"
    /\ ParseIdle
    /\ ColourIdle
    /\ BuildIdle
    /\ ConvertIdle
    /\ ServeIdle

\* ColourChooser.choose(i, n)
Choose ==
    /\ ~chooseDone
    /\ chooseDone' = TRUE
    /\ IF choose_ok(arg_i, arg_n)
       THEN ret' = choose(arg_i, arg_n) /\ cherr' = "none"
       ELSE ret' = NoColour /\ cherr' = "AssertionError"
    /\ UNCHANGED <<arg_i, arg_n>>
    /\ UNCHANGED otherThanChoose

NextChoose == Choose

SpecChoose == InitChoose /\ [][NextChoose]_vars

(***************************************************************************)
(* NickColourizer                                                          *)
(***************************************************************************)
DefaultMaxNicks == 30

\* the maxnicks a NickColourizer is constructed with
InitMaxNicks == {1, 2, 3, DefaultMaxNicks}

\* __getitem__ that forgets the colour it chose
store_nothing(nc, nick, colour) == nc

\* self.nick_colour[nick] = colour
store(nc, nick, colour) == [nc EXCEPT ![nick] = colour]

InitColour ==
    /\ nickcount = 0
    /\ maxnicks \in InitMaxNicks
    /\ nick_colour = [k \in Nicks |-> NoColour]
    /\ cerr = "none"
    /\ lastNick = 0
    /\ lastColour = NoColour
    /\ firstColour = [k \in Nicks |-> NoColour]
    /\ order = <<>>
    /\ renames = 0
    /\ calls = <<>>
    /\ ParseIdle
    /\ ChooseIdle
    /\ ConvertIdle
    /\ ServeIdle
    /\ BuildIdle

\* maxnicks doubled only once nickcount has passed it
grow_late(count, limit) == IF count > limit THEN limit * 2 ELSE limit

\* if self.nickcount >= self.maxnicks: self.maxnicks *= 2
grow(count, limit) == IF count >= limit THEN limit * 2 ELSE limit

\* the body of __getitem__ on a NickColourizer whose attributes are count,
\* limit and nc: the attributes afterwards, what is returned or raised, and
\* the arguments of the call of choose, if one was made
getitem(count, limit, nc, nick) ==
    LET colour == nc[nick]
        count1 == count + 1
        limit1 == grow(count1, limit)
    IN  IF colour # NoColour
        THEN [nickcount |-> count, maxnicks |-> limit, nick_colour |-> nc,
              colour |-> colour, raise |-> "none", call |-> <<>>]
        ELSE IF choose_ok(count1, limit1)
        THEN [nickcount |-> count1, maxnicks |-> limit1,
              nick_colour |-> store(nc, nick, choose(count1, limit1)),
              colour |-> choose(count1, limit1), raise |-> "none",
              call |-> <<<<count1, limit1>>>>]
        ELSE [nickcount |-> count1, maxnicks |-> limit1, nick_colour |-> nc,
              colour |-> NoColour, raise |-> "AssertionError",
              call |-> <<<<count1, limit1>>>>]

\* NickColourizer.__getitem__(nick)
Lookup(nick) ==
    /\ cerr = "none"
    /\ \E r \in {getitem(nickcount, maxnicks, nick_colour, nick)} :
           /\ nickcount' = r.nickcount
           /\ maxnicks' = r.maxnicks
           /\ nick_colour' = r.nick_colour
           /\ lastColour' = r.colour
           /\ cerr' = r.raise
           /\ calls' = calls \o r.call
    /\ lastNick' = nick
    /\ firstColour' = IF firstColour[nick] = NoColour
                      THEN [firstColour EXCEPT ![nick] = lastColour']
                      ELSE firstColour
    /\ order' = IF \E k \in 1..Len(order) : order[k] = nick THEN order
                ELSE Append(order, nick)
    /\ UNCHANGED renames
    /\ UNCHANGED otherThanColour

\* nickchange that leaves the old entry in place
nickchange_copy(nc, oldnick, newnick) ==
    IF nc[oldnick] # NoColour
    THEN [nc EXCEPT ![newnick] = nc[oldnick]]
    ELSE nc

\* if oldnick in self.nick_colour:
\*     self.nick_colour[newnick] = self.nick_colour.pop(oldnick)
nickchange(nc, oldnick, newnick) ==
    IF nc[oldnick] # NoColour
    THEN [[nc EXCEPT ![oldnick] = NoColour] EXCEPT ![newnick] = nc[oldnick]]
    ELSE nc

\* NickColourizer.nickchange(oldnick, newnick)
NickChange(oldnick, newnick) ==
    /\ cerr = "none"
    /\ renames < MaxRenames
    /\ renames' = renames + 1
    /\ nick_colour' = nickchange(nick_colour, oldnick, newnick)
    /\ UNCHANGED <<nickcount, maxnicks, cerr, lastNick, lastColour,
                   firstColour, order, calls>>
    /\ UNCHANGED otherThanColour

NextColour ==
    \/ \E nick \in Nicks : Lookup(nick)
    \/ \E oldnick, newnick \in Nicks : NickChange(oldnick, newnick)

SpecColour == InitColour /\ [][NextColour]_vars

(***************************************************************************)
(* A NickColourizer constructed with default_colours.                      *)
(***************************************************************************)
PresetColour == <<"#", "0", "0", "0", "0", "0", "0">>

\* default_colours gives the first nickname a colour, or is empty
PresetTables ==
    {[k \in Nicks |-> IF k \in P THEN PresetColour ELSE NoColour] :
        P \in {{}, {1}}}

\* the maxnicks such a NickColourizer is constructed with: the smallest
\* the constructor is meant for, and the default
PresetMaxNicks == {1, DefaultMaxNicks}

InitPreset ==
    /\ nickcount = 0
    /\ maxnicks \in PresetMaxNicks
    /\ nick_colour \in PresetTables
    /\ cerr = "none"
    /\ lastNick = 0
    /\ lastColour = NoColour
    /\ firstColour = [k \in Nicks |-> NoColour]
    /\ order = <<>>
    /\ renames = 0
    /\ calls = <<>>
    /\ ParseIdle
    /\ ChooseIdle
    /\ ConvertIdle
    /\ ServeIdle
    /\ BuildIdle

SpecPreset == InitPreset /\ [][NextColour]_vars

(***************************************************************************)
(* A long session without renames.  The nicknames are numbered in the      *)
(* order in which they are first looked up.                                *)
(***************************************************************************)
SessionNicks == 1..MaxSession

InitSession ==
    /\ nickcount = 0
    /\ maxnicks \in InitMaxNicks
    /\ nick_colour = [k \in SessionNicks |-> NoColour]
    /\ cerr = "none"
    /\ lastNick = 0
    /\ lastColour = NoColour
    /\ firstColour = [k \in SessionNicks |-> NoColour]
    /\ order = <<>>
    /\ renames = 0
    /\ calls = <<>>
    /\ ParseIdle
    /\ ChooseIdle
    /\ ConvertIdle
    /\ ServeIdle
    /\ BuildIdle

\* nick_colour[nick] for a nickname seen before, or for the next new one
SessionLookup(nick) ==
    /\ nick <= Len(order) + 1
    /\ Lookup(nick)

NextSession == \E nick \in SessionNicks : SessionLookup(nick)

SpecSession == InitSession /\ [][NextSession]_vars

(***************************************************************************)
(* log2html: the conversion of one transcript.  The formatter is           *)
(* represented by the calls made to it; of their arguments the nickname,   *)
(* the colour and the kind of event are kept, the text is not.             *)
(***************************************************************************)
L_A_HI == <<"<", "a", ">", " ", "h", "i", "\n">>
L_B_HI == <<"<", "b", ">", " ", "h", "i", "\n">>
L_AMP_HI == <<"<", "a", "&", "b", ">", " ", "h", "i", "\n">>
L_DASH_RENAME == <<"-", "-", "-", " ", "a", " ", "i", "s", " ", "n", "o", "w", " ", "k", "n", "o", "w", "n", " ", "a", "s", " ", "b", "\n">>
L_STAR_RENAME == <<"*", "*", "*", " ", "a", " ", "i", "s", " ", "n", "o", "w", " ", "k", "n", "o", "w", "n", " ", "a", "s", " ", "b", "\n">>
L_BLANK == <<"\n">>

ConvertLines == {L_A_HI, L_B_HI, L_AMP_HI, L_DASH_RENAME, L_STAR_RENAME, L_BLANK}

\* the input files
Transcripts == UNION {[1..k -> ConvertLines] : k \in 0..MaxTranscript}

S_AMP == <<"&", "a", "m", "p", ";">>
S_LT == <<"&", "l", "t", ";">>
S_GT == <<"&", "g", "t", ";">>

\* characters with ord(c) <= 0x1F
ControlChars == {"\t", "\n", "\r", "\f"}

RECURSIVE escape(_)
\* s.replace('&', '&amp;').replace('<', '&lt;').replace('>', '&gt;'), then
\* without the control characters
escape(s) ==
    IF s = <<>> THEN <<>>
    ELSE LET c == Head(s)
             e == IF c = "&" THEN S_AMP
                  ELSE IF c = "<" THEN S_LT
                  ELSE IF c = ">" THEN S_GT
                  ELSE IF c \in ControlChars THEN <<>>
                  ELSE <<c>>
         IN  e \o escape(Tail(s))

\* the keys log2html can look up: the escaped nicknames of the comments
ConvertNicks ==
    {escape(iter_line(l).yielded[1].info[1]) :
        l \in {x \in ConvertLines :
                  /\ iter_line(x).yielded # <<>>
                  /\ iter_line(x).yielded[1].kind = "COMMENT"}}

InitConvert ==
    /\ infile \in Transcripts
    /\ pos = 0
    /\ rendered = <<>>
    /\ conv = "start"
    /\ converr = "none"
    /\ ColourIdle
    /\ ParseIdle
    /\ ChooseIdle
    /\ BuildIdle
    /\ ServeIdle

\* nick_colour = NickColourizer(); formatter.head(title)
Begin ==
    /\ conv = "start"
    /\ nickcount' = 0
    /\ maxnicks' = DefaultMaxNicks
    /\ nick_colour' = [k \in ConvertNicks |-> NoColour]
    /\ rendered' = <<<<"head">>>>
    /\ conv' = "loop"
    /\ UNCHANGED <<infile, pos, converr>>
    /\ UNCHANGED <<cerr, lastNick, lastColour, firstColour, order, renames, calls>>
    /\ UNCHANGED otherThanConvert

\* one round of "for time, what, info in parser": the parser reads the
\* next line and the loop body handles what it yields
ConvertLine ==
    /\ conv = "loop"
    /\ pos < Len(infile)
    /\ pos' = pos + 1
    /\ LET p == iter_line(infile[pos + 1])
           crash(x) == /\ conv' = "crashed"
                       /\ converr' = x
                       /\ UNCHANGED <<rendered, nickcount, maxnicks, nick_colour, calls>>
       IN  IF p.raise # "none"
           THEN crash(p.raise)
           ELSE IF p.yielded = <<>>
           THEN UNCHANGED <<conv, converr, rendered, nickcount, maxnicks,
                            nick_colour, calls>>
           ELSE LET what == p.yielded[1].kind
                    info == p.yielded[1].info
                IN  IF what = "COMMENT"
                    THEN LET nick == escape(info[1])
                             r == getitem(nickcount, maxnicks, nick_colour, nick)
                         IN  /\ nickcount' = r.nickcount
                             /\ maxnicks' = r.maxnicks
                             /\ calls' = calls \o r.call
                             /\ IF r.raise = "none"
                                THEN /\ nick_colour' = r.nick_colour
                                     /\ rendered' = Append(rendered,
                                            <<"nicktext", nick, r.colour>>)
                                     /\ UNCHANGED <<conv, converr>>
                                ELSE /\ conv' = "crashed"
                                     /\ converr' = r.raise
                                     /\ UNCHANGED <<rendered, nick_colour>>
                    ELSE IF what = "NICKCHANGE"
                    \* nick_colour.change(oldnick, newnick): NickColourizer
                    \* has no attribute "change"
                    THEN crash("AttributeError")
                    ELSE /\ rendered' = Append(rendered, <<"servermsg", what>>)
                         /\ UNCHANGED <<conv, converr, nickcount, maxnicks,
                                        nick_colour, calls>>
    /\ UNCHANGED infile
    /\ UNCHANGED <<cerr, lastNick, lastColour, firstColour, order, renames>>
    /\ UNCHANGED otherThanConvert

\* the parser is exhausted: formatter.foot()
End ==
    /\ conv = "loop"
    /\ pos = Len(infile)
    /\ rendered' = Append(rendered, <<"foot">>)
    /\ conv' = "done"
    /\ UNCHANGED <<infile, pos, converr>>
    /\ UNCHANGED colourVars
    /\ UNCHANGED otherThanConvert

NextConvert == Begin \/ ConvertLine \/ End

SpecConvert == InitConvert /\ [][NextConvert]_vars

(***************************************************************************)
(* irclogserver: parse_path and the routing of application.  A request     *)
(* path is put together from a few pieces; the file names among them carry *)
(* a valid date.  The file system is represented by whether the file asked *)
(* for is there.  The page builders are represented by their names.        *)
(***************************************************************************)
T_SLASH == <<"/">>
T_BACKSLASH == <<"\\">>
T_DOTDOT == <<".", ".">>
T_DOT == <<".">>
T_CHAN == <<"c">>
T_INDEX == <<"i", "n", "d", "e", "x", ".", "h", "t", "m", "l">>
T_SEARCH == <<"s", "e", "a", "r", "c", "h">>
T_CSS == <<"i", "r", "c", "l", "o", "g", ".", "c", "s", "s">>
T_LOG == <<"2", "0", "1", "5", "-", "0", "1", "-", "0", "2", ".", "l", "o", "g">>
T_HTML == <<".", "h", "t", "m", "l">>

Segs == {T_SLASH, T_BACKSLASH, T_DOTDOT, T_DOT, T_CHAN, T_INDEX, T_SEARCH,
         T_CSS, T_LOG, T_HTML}

RECURSIVE Concat(_)
Concat(ss) == IF ss = <<>> THEN <<>> ELSE Head(ss) \o Concat(Tail(ss))

\* the values of PATH_INFO
Requests ==
    {T_SLASH \o Concat(t) : t \in UNION {[1..k -> Segs] : k \in 0..MaxSegs}}

\* None; a value v that is not None is written <<v>>
None == <<>>

\* str.endswith
EndsWith(s, p) == Len(s) >= Len(p) /\ SubSeq(s, Len(s) - Len(p) + 1, Len(s)) = p

\* DATE_REGEXP.match(basename): \d\d\d\d-?\d\d-?\d\d somewhere in the name
HasDate(s) ==
    \E i \in 1..Len(s) : \E a, b \in {0, 1} :
        /\ \A k \in {0, 1, 2, 3, 4 + a, 5 + a, 6 + a + b, 7 + a + b} :
              DigitAt(s, i + k)
        /\ a = 1 => CharAt(s, i + 4, "-")
        /\ b = 1 => CharAt(s, i + 6 + a, "-")

\* parse_path(environ): (channel, filename)
parse_path(path_info, many) ==
    LET path == Drop(path_info, 1)
        split == many /\ Contains(path, T_SLASH)
        k == Min({j \in 1..Len(path) : path[j] = "/"})
        chan == IF split THEN <<SubSeq(path, 1, k - 1)>> ELSE None
        rest == IF split THEN Drop(path, k) ELSE path
    IN  IF split /\ chan = <<T_DOTDOT>>
        THEN [channel |-> None, path |-> None]
        ELSE IF Contains(rest, T_SLASH) \/ Contains(rest, T_BACKSLASH)
        THEN [channel |-> chan, path |-> None]
        ELSE [channel |-> chan,
              path |-> <<IF rest = <<>> THEN T_INDEX ELSE rest>>]

NotFound == [status |-> "404 Not Found", opened |-> <<>>, rendering |-> "none"]

Ok(files, page) == [status |-> "200 Ok", opened |-> files, rendering |-> page]

\* the body of application: the status, the files it opened under
\* logfile_path (each with the channel logfile_path was joined from, or
\* None) and the page builder it called
respond(path_info, many, sepb, has, haslog) ==
    LET pp == parse_path(path_info, many)
        chan == pp.channel
        \* "if channel:" - neither None nor ''
        dir == IF chan # None /\ chan[1] # <<>> THEN chan ELSE None
    IN  IF pp.path = None
        THEN NotFound
        ELSE LET path == pp.path[1]
                 source == SubSeq(path, 1, Len(path) - Len(T_HTML))
             IN  IF path = T_INDEX /\ many /\ chan = None
                 THEN Ok(<<>>, "dir_listing")
                 ELSE IF path = T_SEARCH
                 THEN Ok(<<>>, "search_page")
                 ELSE IF path = T_CSS
                 THEN Ok(<<>>, "CSS_FILE")
                 \* open(os.path.join(logfile_path, path)); a directory
                 \* cannot be opened
                 ELSE IF has /\ path \notin {T_DOT, T_DOTDOT}
                 THEN Ok(<<<<dir, path>>>>, "none")
                 ELSE IF path = T_INDEX
                 THEN Ok(<<>>, "log_listing")
                 ELSE IF EndsWith(path, T_HTML)
                 THEN IF HasDate(source) /\ haslog
                      THEN Ok(<<<<dir, source>>>>, "dynamic_log")
                      ELSE NotFound
                 ELSE NotFound

InitServe ==
    /\ PATH_INFO \in Requests
    /\ chan_dir \in BOOLEAN
    /\ sep_backslash \in BOOLEAN
    /\ fs_has \in BOOLEAN
    /\ log_has \in BOOLEAN
    /\ served = FALSE
    /\ status = "200 Ok"
    /\ opened = <<>>
    /\ rendering = "none"
    /\ ParseIdle
    /\ ColourIdle
    /\ ChooseIdle
    /\ ConvertIdle
    /\ BuildIdle

\* application(environ, start_response)
Respond ==
    /\ ~served
    /\ served' = TRUE
    /\ LET r == respond(PATH_INFO, chan_dir, sep_backslash, fs_has, log_has)
       IN  /\ status' = r.status
           /\ opened' = r.opened
           /\ rendering' = r.rendering
    /\ UNCHANGED <<PATH_INFO, chan_dir, sep_backslash, fs_has, log_has>>
    /\ UNCHANGED otherThanServe

NextServe == Respond

SpecServe == InitServe /\ [][NextServe]_vars

(***************************************************************************)
(* The scheduler's claims.                                                 *)
(***************************************************************************)
\* the chronological neighbours of a transcript, from the directory alone
Pred(f) == IF \E g \in logs : g < f THEN Max({g \in logs : g < f}) ELSE 0
Succ(f) == IF \E g \in logs : g > f THEN Min({g \in logs : g > f}) ELSE 0

\* new: the artifact was absent when the run started
IsNew0(f) == f # 0 /\ f \notin html0

\* the files the for loop is done with
Processed == {logfiles[i] : i \in 1..(loop_n - 1)}

InRun == pc \in {"loop", "finalize", "done", "crashed"}

MustRegen(f) ==
    \/ force
    \/ f \notin html0
    \/ ~(htmlM0[f] > srcM[f])
    \/ IsNew0(Pred(f))
    \/ IsNew0(Succ(f))

\* C1: in one run a transcript is regenerated iff the force flag is set, or
\* its artifact does not exist, or the artifact is not strictly newer than
\* the source, or its chronological predecessor or successor is new, where
\* new means: the artifact was absent when the run started.
C1_RegenIff ==
    /\ InRun => \A f \in Processed : (f \in generated) <=> MustRegen(f)
    /\ pc \in {"finalize", "done", "crashed"} => Processed = logs

\* a page that is itself up to date is regenerated only because its
\* successor, regenerated earlier in the run, was new; another page is not
C1_Witness ==
    /\ pc = "done" /\ ~force
    /\ \E f \in generated :
          /\ f \in html0 /\ htmlM0[f] > srcM[f]
          /\ ~IsNew0(Pred(f)) /\ IsNew0(Succ(f)) /\ Succ(f) \in html
    /\ logs \ generated # {}

\* C2 as claimed: a run without force that follows a successful run, with no
\* change in between, regenerates nothing and changes no modification time.
C2_Idempotent ==
    (pc = "done" /\ startedClean /\ ~force)
        => generated = {} /\ html = html0 /\ htmlM = htmlM0

\* C2, amended: such a run regenerates exactly the pages whose artifact is
\* not strictly newer than its source (a source last modified in the tick
\* of the clock in which the earlier run wrote the artifact) and leaves the
\* modification time of every other page alone; with every artifact
\* strictly newer than its source it regenerates nothing.
C2_IdempotentUnlessTie ==
    (pc = "done" /\ startedClean /\ ~force)
        => /\ html0 = logs /\ html = html0
           /\ generated = {f \in logs : htmlM0[f] <= srcM[f]}
           /\ \A f \in logs \ generated : htmlM[f] = htmlM0[f]
           /\ (\A f \in logs : htmlM0[f] > srcM[f])
                 => generated = {} /\ htmlM = htmlM0

\* the second run over two or more pages, all strictly newer than their
\* sources, has regenerated nothing
C2_Witness ==
    /\ pc = "done" /\ startedClean /\ ~force
    /\ Cardinality(logs) >= 2
    /\ \A f \in logs : htmlM0[f] > srcM[f]
    /\ generated = {}

\* the three transcripts of a directory of three, oldest first
ThreeLogs == Cardinality(logs) = 3
First == Min(logs)
Third == Max(logs)
Second == CHOOSE f \in logs : f # First /\ f # Third

\* C3: with three transcripts, all rendered and up to date, modifying only
\* the oldest source and running without force regenerates the oldest page,
\* not the newest, and the middle one only if its artifact was absent when
\* the run started (which it was not: the oldest page alone is regenerated).
C3_NoPropagation ==
    (pc = "done" /\ ~force /\ ThreeLogs /\ edited = {First})
        => /\ First \in generated
           /\ Third \notin generated
           /\ Second \in generated => Second \notin html0
           /\ generated = {First}

\* the run after the oldest of three sources was modified has ended
C3_Witness ==
    /\ pc = "done" /\ ~force /\ ThreeLogs /\ edited = {First}
    /\ html0 = logs
    /\ generated = {First}
    /\ htmlM[First] >= srcM[First]

\* C4: every generate() call gets the link of the transcript just before it
\* in ascending file name order as prev and of the one just after it as
\* next, none at the two ends; among regenerated neighbours next(f) = g
\* exactly when prev(g) = f; a first run over three transcripts regenerates
\* all three and the middle one links to both others.
C4_Neighbours ==
    /\ InRun =>
         \A f \in generated :
            /\ genPrev[f] = LinkOf(Pred(f))
            /\ genNext[f] = LinkOf(Succ(f))
            /\ f = Min(logs) => genPrev[f] = NoLink
            /\ f = Max(logs) => genNext[f] = NoLink
    /\ InRun =>
         \A f, g \in generated :
            (genNext[f] = pick_output_filename(g))
               <=> (genPrev[g] = pick_output_filename(f))
    /\ (pc = "done" /\ ThreeLogs /\ html0 = {})
         => /\ generated = logs
            /\ genPrev[Second] = pick_output_filename(First)
            /\ genNext[Second] = pick_output_filename(Third)

\* a first run over three transcripts has ended
C4_Witness ==
    /\ pc = "done" /\ ThreeLogs /\ html0 = {} /\ ~force
    /\ generated = logs
    /\ genPrev[Second] = pick_output_filename(First)
    /\ genNext[Second] = pick_output_filename(Third)
    /\ genPrev[First] = NoLink /\ genNext[Third] = NoLink

\* C5: a matched file whose name yields no date aborts the run before any
\* side effect: nothing is regenerated, index.html and the latest link are
\* left as they were, also when valid and stale transcripts are matched.
C5_AbortBeforeEffects ==
    (pc # "idle" /\ junk # {})
        => /\ pc = "aborted"
           /\ generated = {} /\ wrote = {}
           /\ html = html0 /\ htmlM = htmlM0
           /\ index = index0 /\ latest = latest0

\* a run over a bad name and two stale transcripts has aborted
C5_Witness ==
    /\ pc = "aborted" /\ "nodate" \in junk
    /\ Cardinality(logs) >= 2
    /\ \A f \in logs : ~uptodate(f, srcM, html, htmlM)
    /\ index = NoIndex

Newest == pick_output_filename(Max(logs))

\* C6 as claimed: after every successful run over at least one transcript
\* latest.log.html points at the artifact of the last transcript; with no
\* transcript it is neither created nor changed.
C6_LatestAlways ==
    pc = "done"
        => IF logs # {}
           THEN latest = SymlinkTo(Newest)
           ELSE latest = latest0 /\ "latest" \notin wrote

\* C6, amended: that holds where the platform has os.symlink; where it has
\* not, the run leaves latest.log.html alone.
C6_LatestWhereSymlinks ==
    pc = "done"
        => IF logs # {} /\ hasSymlink
           THEN latest = SymlinkTo(Newest) /\ "latest" \in wrote
           ELSE latest = latest0 /\ "latest" \notin wrote

\* a run has moved a link that pointed at another page
C6_Witness ==
    /\ pc = "done" /\ hasSymlink /\ Cardinality(logs) >= 2
    /\ latest0.kind = "link" /\ latest0 # latest
    /\ latest = SymlinkTo(Newest)

\* C7 as claimed: index.html lists every transcript once, oldest first.
C7_IndexOldestFirst ==
    pc = "done"
        => /\ index.exists
           /\ Len(index.entries) = Cardinality(logs)
           /\ \A f \in logs : \E i \in 1..Len(index.entries) :
                 index.entries[i].href = pick_output_filename(f)
           /\ \A i, j \in 1..Len(index.entries) :
                 i < j => index.entries[i].href.of < index.entries[j].href.of

\* C7, amended: index.html lists every transcript once, each entry linking
\* to its artifact, newest first: the order the scheduler works in.
C7_IndexNewestFirst ==
    pc = "done"
        => /\ index.exists /\ "index" \in wrote
           /\ Len(index.entries) = Cardinality(logs)
           /\ \A f \in logs : \E i \in 1..Len(index.entries) :
                 /\ index.entries[i].href = pick_output_filename(f)
                 /\ index.entries[i].title = Title(f)
           /\ \A i, j \in 1..Len(index.entries) :
                 i < j => index.entries[i].href.of > index.entries[j].href.of

\* an index of three entries has been written
C7_Witness ==
    /\ pc = "done" /\ ThreeLogs
    /\ Len(index.entries) = 3
    /\ index.entries[1].href = pick_output_filename(Third)
    /\ index.entries[3].href = pick_output_filename(First)

(***************************************************************************)
(* The parser's claims.                                                    *)
(***************************************************************************)
\* the line read last without its terminator, and without its timestamp
Stripped == rstrip_crlf(line)
Untimed == IF TimeShapes(Stripped) # {} THEN Drop(Stripped, TimeLen(Stripped))
           ELSE Stripped

\* C8: classification is total: every non-empty line (its terminator
\* stripped) yields exactly one event, of one of the seven kinds, and none
\* raises an error; a blank line yields no event.
C8_Total ==
    line # <<>>
        => /\ perr = "none"
           /\ IF Stripped = <<>> THEN out = <<>>
              ELSE Len(out) = 1 /\ out[1].kind \in Kinds

\* C9: a line "*** OLD is now known as NEW" or "... are now known as ..."
\* (also with "---") is classified NICKCHANGE with the payload
\* (line, OLD, NEW), OLD and NEW being what the match captured.
C9_NickChange ==
    (line # <<>> /\ NickChangeAts(Untimed) # {})
        => /\ perr = "none"
           /\ Len(out) = 1
           /\ out[1].kind = "NICKCHANGE"
           /\ out[1].info = <<Untimed, NickChangeGroups(Untimed)[1],
                              NickChangeGroups(Untimed)[2]>>

\* the kind of the one event the line read last yielded ("" when it
\* yielded none)
KindOut == IF Len(out) = 1 THEN out[1].kind ELSE ""

\* C14: a line that, its timestamp stripped, is neither a "<nick> " comment
\* nor a "* " action is PART exactly when it starts with "--> ", contains
\* "left" or "quit" and does not contain "joined"; every line that starts
\* with "*** " is JOIN, whatever else it holds.
C14_PartAndJoin ==
    (line # <<>> /\ Stripped # <<>> /\ NickEnds(Untimed) = {}
       /\ ~StartsWith(Untimed, S_STAR_SP))
        => /\ KindOut = "PART"
                <=> /\ StartsWith(Untimed, S_ARROW_SP)
                    /\ Contains(Untimed, S_LEFT) \/ Contains(Untimed, S_QUIT)
                    /\ ~Contains(Untimed, S_JOINED)
           /\ StartsWith(Untimed, S_STAR3_SP) => perr = "none" /\ KindOut = "JOIN"

\* a timestamped "--> ... quit" line came out as PART
C14_Witness ==
    /\ line # <<>> /\ perr = "none"
    /\ Untimed # Stripped
    /\ StartsWith(Untimed, S_ARROW_SP) /\ Contains(Untimed, S_QUIT)
    /\ KindOut = "PART"

(***************************************************************************)
(* The colour assignment's claims.                                         *)
(***************************************************************************)
\* C10: in a session without a rename every lookup of a nickname returns
\* the colour its first lookup returned, however many other nicknames were
\* assigned in between and also after maxnicks was doubled; and the colours
\* of the first two nicknames differ.
C10_SessionStable ==
    (renames = 0 /\ cerr = "none")
        => /\ lastNick # 0
                => lastColour # NoColour /\ lastColour = firstColour[lastNick]
           /\ Len(order) >= 2
                => firstColour[order[1]] # firstColour[order[2]]

\* the first nickname is looked up again after two others were assigned
\* and maxnicks was doubled
C10_Witness ==
    /\ renames = 0 /\ cerr = "none"
    /\ Len(order) >= 3 /\ lastNick = order[1]
    /\ maxnicks \notin InitMaxNicks
    /\ lastColour = firstColour[lastNick]
    /\ lastColour # firstColour[order[3]]

\* C11 as stated: nickchange(old, new) moves the entry: when old has a
\* colour c, afterwards new maps to c and old is no longer a key; when old
\* has none, the table, nickcount and maxnicks are unchanged; the entries of
\* every other nickname are unchanged.
C11_Moves ==
    [][\A oldnick, newnick \in Nicks :
          NickChange(oldnick, newnick)
             => /\ IF nick_colour[oldnick] # NoColour
                   THEN /\ nick_colour'[newnick] = nick_colour[oldnick]
                        /\ nick_colour'[oldnick] = NoColour
                   ELSE UNCHANGED <<nick_colour, nickcount, maxnicks>>
                /\ \A k \in Nicks \ {oldnick, newnick} :
                      nick_colour'[k] = nick_colour[k]]_vars

\* C11, amended: as above, but old stops being a key only when new is
\* another nickname; nickchange(a, a) pops the entry and puts it back, so a
\* keeps its colour and stays a key.  nickcount and maxnicks never change.
C11_MovesUnlessSame ==
    [][\A oldnick, newnick \in Nicks :
          NickChange(oldnick, newnick)
             => /\ IF nick_colour[oldnick] # NoColour
                   THEN /\ nick_colour'[newnick] = nick_colour[oldnick]
                        /\ oldnick # newnick => nick_colour'[oldnick] = NoColour
                   ELSE UNCHANGED nick_colour
                /\ UNCHANGED <<nickcount, maxnicks>>
                /\ \A k \in Nicks \ {oldnick, newnick} :
                      nick_colour'[k] = nick_colour[k]]_vars

\* a nickname that was given a colour has been renamed to another one,
\* which now holds that colour, while a third keeps its own
C11_Witness ==
    /\ renames > 0
    /\ \E a, b, c \in Nicks :
          /\ a # b /\ c \notin {a, b}
          /\ firstColour[a] # NoColour
          /\ nick_colour[a] = NoColour
          /\ nick_colour[b] = firstColour[a]
          /\ nick_colour[c] # NoColour /\ nick_colour[c] = firstColour[c]

(***************************************************************************)
(* The colour chooser's claims.                                            *)
(***************************************************************************)
\* [0-9a-f]
LowerHex == {"0", "1", "2", "3", "4", "5", "6", "7", "8", "9",
             "a", "b", "c", "d", "e", "f"}

\* the value two hexadecimal digits stand for, whatever their case
HexVal(d) ==
    LET v(ch) == CHOOSE k \in 0..15 : ch \in {HexChar[k + 1], HexCharUpper[k + 1]}
    IN  16 * v(d[1]) + v(d[2])

\* C12: with the default parameters choose(i, n), for n >= 1 and
\* 0 <= i < n, returns '#' and six lowercase hexadecimal digits, two for
\* each of three channels in 0..255 (the truncated products the code
\* computed), and none of its assertions fails; with n = 0 the call ends
\* as the same call with n = 1 does.
C12_ChooseWellFormed ==
    chooseDone
        => /\ (arg_n >= 1 /\ arg_i < arg_n)
                 => /\ cherr = "none"
                    /\ Len(ret) = 7 /\ ret[1] = "#"
                    /\ \A k \in 2..7 : ret[k] \in LowerHex
                    /\ \A k \in 1..3 :
                          /\ HexVal(SubSeq(ret, 2 * k, 2 * k + 1)) \in 0..255
                          /\ HexVal(SubSeq(ret, 2 * k, 2 * k + 1))
                                = choose_rgb(arg_i, arg_n)[k]
           /\ arg_n = 0
                 => IF choose_ok(arg_i, 1)
                    THEN cherr = "none" /\ ret = choose(arg_i, 1)
                    ELSE cherr = "AssertionError"

\* the last colour of a palette of more than six has been chosen
C12_Witness ==
    /\ chooseDone /\ cherr = "none"
    /\ arg_n > Len(rgb) /\ arg_i = arg_n - 1
    /\ Len(ret) = 7

\* C15 as stated: with the defaults the magnitude
\* m = rgbmin + (rgbmax - rgbmin) * (n - i) / n decreases toward rgbmax as
\* i approaches n: m(i + 1, n) <= m(i, n) for 0 <= i < n, and
\* m(n, n) = rgbmax.
C15_DecreasesToRgbmax ==
    (chooseDone /\ arg_i < choose_n(arg_n))
        => /\ m_times_n(arg_i + 1, choose_n(arg_n))
                 <= m_times_n(arg_i, choose_n(arg_n))
           /\ m_times_n(choose_n(arg_n), choose_n(arg_n))
                 = rgbmax * choose_n(arg_n)

\* C15, amended: with the defaults the magnitude starts at rgbmax for
\* i = 0 and increases toward rgbmin as i approaches n:
\* m(i + 1, n) >= m(i, n) for 0 <= i < n, m(0, n) = rgbmax and
\* m(n, n) = rgbmin.
C15_IncreasesToRgbmin ==
    (chooseDone /\ arg_i < choose_n(arg_n))
        => /\ m_times_n(arg_i + 1, choose_n(arg_n))
                 >= m_times_n(arg_i, choose_n(arg_n))
           /\ m_times_n(0, choose_n(arg_n)) = rgbmax * choose_n(arg_n)
           /\ m_times_n(choose_n(arg_n), choose_n(arg_n))
                 = rgbmin * choose_n(arg_n)

\* a colour in the middle of a palette has been chosen, brighter than the
\* first and darker than the last
C15_Witness ==
    /\ chooseDone /\ cherr = "none"
    /\ arg_n > 2 /\ arg_i > 0 /\ arg_i < arg_n - 1
    /\ m_times_n(arg_i, arg_n) > rgbmax * arg_n
    /\ m_times_n(arg_i, arg_n) < rgbmin * arg_n

\* the session's NickColourizer was constructed with the default maxnicks
\* and has chosen a colour (a smaller maxnicks is doubled at the first
\* lookup already)
DefaultSession == calls # <<>> /\ calls[1] = <<1, DefaultMaxNicks>>

\* C16: in a session with the default settings and no renames any two
\* distinct nicknames hold different colour strings, also when one was
\* assigned before and the other after maxnicks was doubled.
C16_AllDistinct ==
    (DefaultSession /\ renames = 0 /\ cerr = "none")
        => \A a, b \in DOMAIN nick_colour :
              (a # b /\ nick_colour[a] # NoColour /\ nick_colour[b] # NoColour)
                 => nick_colour[a] # nick_colour[b]

\* C17: for a NickColourizer constructed with maxnicks >= 1, over any
\* lookups and renames, maxnicks and nickcount never decrease; every call
\* choose(i, n) made so far had 1 <= i < n and passed the assertions of
\* choose; and nickcount is the number of colours generated so far, the
\* k-th of them by the call with i = k.
C17_CountAndLimit ==
    /\ [](/\ cerr = "none"
          /\ nickcount = Len(calls)
          /\ \A k \in 1..Len(calls) :
                /\ calls[k][1] = k
                /\ 1 <= calls[k][1] /\ calls[k][1] < calls[k][2]
                /\ choose_ok(calls[k][1], calls[k][2])
          /\ calls # <<>> => calls[Len(calls)][2] = maxnicks)
    /\ [][maxnicks' >= maxnicks /\ nickcount' >= nickcount]_vars

\* a preset nickname was looked up without being counted, and a nickname
\* renamed away was looked up again and counted again: three colours were
\* generated for the two nicknames that had none preset
C17_Witness ==
    /\ firstColour[1] = PresetColour
    /\ renames > 0
    /\ nickcount = MaxNicks
    /\ Len(calls) = MaxNicks
    /\ cerr = "none"

(***************************************************************************)
(* The conversion's claims.                                                *)
(***************************************************************************)
\* the transcript: a comments, a is renamed to b, b comments
RenameTranscript ==
    /\ Len(infile) = 3
    /\ infile[1] = L_A_HI
    /\ infile[2] \in {L_DASH_RENAME, L_STAR_RENAME}
    /\ infile[3] = L_B_HI

\* C13: for a transcript in which a comments, a is renamed to b and b
\* comments, log2html completes with head, one formatter call per event in
\* the order of the input, and foot, and renders b's comment in the colour
\* it rendered a's comment in.
C13_RenameEndToEnd ==
    (RenameTranscript /\ conv \in {"done", "crashed"})
        => /\ conv = "done"
           /\ Len(rendered) = 5
           /\ rendered[1] = <<"head">>
           /\ rendered[2][1] = "nicktext" /\ rendered[2][2] = <<"a">>
           /\ rendered[3] = <<"servermsg", "NICKCHANGE">>
           /\ rendered[4][1] = "nicktext" /\ rendered[4][2] = <<"b">>
           /\ rendered[4][3] = rendered[2][3]
           /\ rendered[5] = <<"foot">>

(***************************************************************************)
(* The server's claims.                                                    *)
(***************************************************************************)
\* the request path without its leading slash, and what is left of it once
\* the channel is split off (with many channels)
Requested == Drop(PATH_INFO, 1)
Splits == chan_dir /\ Contains(Requested, T_SLASH)
FirstSlash == Min({j \in 1..Len(Requested) : Requested[j] = "/"})
RequestedChannel == IF Splits THEN <<SubSeq(Requested, 1, FirstSlash - 1)>> ELSE None
RequestedFile == IF Splits THEN Drop(Requested, FirstSlash) ELSE Requested

\* s holds a path separator of the platform
HasSep(s) == Contains(s, T_SLASH) \/ (sep_backslash /\ Contains(s, T_BACKSLASH))

\* the file <<channel, name>> lies in the log directory (no channel) or in
\* the subdirectory of the channel directory that the channel names
Confined(f) ==
    /\ ~HasSep(f[2]) /\ f[2] \notin {T_DOT, T_DOTDOT}
    /\ f[1] # None => ~HasSep(f[1][1]) /\ f[1][1] \notin {T_DOT, T_DOTDOT}

\* C18: the application opens no file outside the log directory or, with
\* many channels, outside a direct subdirectory of the channel directory;
\* a request whose path, the channel split off, holds "/" or "\", or
\* whose channel is "..", is answered 404 Not Found with no file opened and
\* no page built.
C18_Confined ==
    served
        => /\ \A k \in 1..Len(opened) : Confined(opened[k])
           /\ (\/ Contains(RequestedFile, T_SLASH)
               \/ Contains(RequestedFile, T_BACKSLASH)
               \/ RequestedChannel = <<T_DOTDOT>>)
                 => /\ parse_path(PATH_INFO, chan_dir).path = None
                    /\ status = "404 Not Found"
                    /\ opened = <<>>
                    /\ rendering = "none"

====
